---------------------------- MODULE Spec2Model ----------------------------
(***************************************************************************)
(* A model of the dialogue core of src/main.py (UltimateRagnosisAI and the *)
(* ConversationHandler built in main()).                                   *)
(*                                                                         *)
(* State: the three dictionaries of UltimateRagnosisAI that the handlers   *)
(* use (user_profiles, conversation_memory, total_queries), the two JSON   *)
(* files written by save_data, the per-user state kept by the              *)
(* ConversationHandler, the update queue of the Application and the        *)
(* handlers that have started and wait for the AI backend.                 *)
(*                                                                         *)
(* Texts are the literal button labels of the source without their emoji   *)
(* prefix ("Main Menu" stands for the label of src/main.py:408).           *)
(*                                                                         *)
(* Text messages are routed to the handler that the states table           *)
(* (src/main.py:860-876) registers for the user's current state; entry     *)
(* points are used for a user without a conversation.                      *)
(***************************************************************************)
EXTENDS Integers, Sequences, FiniteSets, TLC

(***************************************************************************)
(* Bounds of the model.                                                    *)
(***************************************************************************)
\* AI requests (total_queries) explored under Spec and QueueSpec
MaxQueries == 3
\* turns stored by save_conversation (clock) explored under Spec and QueueSpec
MaxTurns == 3
\* entries to smart chat (conversation_count) explored per profile
MaxCount == 2
\* turns stored under CapSpec (one user, one mode, long log)
MaxCapTurns == 52
\* AI requests without a stored turn (failed or in flight) under CapSpec
MaxCapFailures == 2
\* updates waiting in the Application's update queue under QueueSpec
MaxQueue == 2
MaxPairQueries == 2
MaxPairTurns == 2
MaxPromptTurns == 10
MaxPromptOther == 2
\* the requests and the stored turns while the offered labels are pressed
MaxLabelQueries == 2
MaxLabelTurns == 1

Users == {1, 2}
\* the user whose dialogue Spec and CapSpec explore
SoloUsers == {1}

(***************************************************************************)
(* Program constants.                                                      *)
(***************************************************************************)
\* src/main.py:151-152  "Keep only last 50 messages per user"
LogCap == 50
\* src/main.py:155  auto-save when the length is a multiple of 5
SaveEvery == 5
\* src/main.py:173  get_conversation_history(user_id, 8)
PromptHistory == 8
\* src/main.py:379  get_conversation_history(user_id, 5)
WelcomeHistory == 5
\* src/main.py:683  get_conversation_history(user_id, 20)
ReportHistory == 20
\* src/main.py:685  len(history) < 3
ReportMinTurns == 3

\* src/main.py:53  MAIN_MENU, CHAT_MODE, ... = range(5): five distinct values
MAIN_MENU == "MAIN_MENU"
CHAT_MODE == "CHAT_MODE"
DIAGNOSIS_MODE == "DIAGNOSIS_MODE"
EMOTIONAL_SUPPORT == "EMOTIONAL_SUPPORT"
HEALTH_LIBRARY == "HEALTH_LIBRARY"
States == {MAIN_MENU, CHAT_MODE, DIAGNOSIS_MODE, EMOTIONAL_SUPPORT, HEALTH_LIBRARY}

\* ConversationHandler: no entry for the user / the END return value /
\* a return value that is not used (handler registered on the Application)
NoConv == "NO_CONVERSATION"
END == "END"
Unused == "UNUSED"

(***************************************************************************)
(* Input alphabet.                                                         *)
(***************************************************************************)
\* the keys of menu_handlers, src/main.py:350-359
MenuLabels == {"Smart Chat", "Symptom Checker", "Emotional Support", "Health Library",
               "Medication Info", "Wellness Coach", "Health Report", "Bot Info"}
\* the quick actions of handle_chat_message that answer with a static text,
\* src/main.py:427-460
ChatQuickActions == {"Analyze Symptoms", "Medication Query", "Research Topic",
                     "Emotional Check", "New Topic"}
MainMenuToken == "Main Menu"
SwitchToChat == "Switch to Chat"
\* every literal the handlers compare a message with
ControlTokens == {MainMenuToken, SwitchToChat, "New Topic"}

\* the labels of the reply keyboard that a reply carries, by the name the
\* handlers give it here; "keep": the reply is sent without reply_markup
KeyboardLabels(keyboard) ==
    CASE keyboard = "main_menu" -> MenuLabels
      [] keyboard = "chat_entry" ->
            {"Analyze Symptoms", "Medication Query", "Research Topic", "Emotional Check",
             "Main Menu", "New Topic"}
      [] keyboard = "chat_reply" ->
            {"More Details", "Related Questions", "Research More", "Medication Info",
             "Main Menu", "New Topic"}
      [] keyboard = "diagnosis_entry" ->
            {"Pain/Discomfort", "Fatigue/Sleep Issues", "Digestive Problems",
             "Heart/Breathing", "Mental/Emotional", "Fever/Infection",
             "Main Menu", "Switch to Chat"}
      [] keyboard = "diagnosis_reply" ->
            {"Severity Scale", "Duration/Timing", "Related Symptoms", "Possible Causes",
             "Action Plan", "When to See Doctor", "Main Menu", "General Chat"}
      [] keyboard = "emotional_entry" ->
            {"Stress/Anxiety", "Sleep Issues", "Mood Management", "Positive Mindset",
             "Relaxation Tips", "Journal Prompts", "Main Menu", "Switch to Chat"}
      [] keyboard = "emotional_reply" ->
            {"Breathing Exercise", "Journal Prompt", "Coping Strategy",
             "Positive Affirmation", "Mood Booster", "Sleep Help",
             "Main Menu", "Continue Sharing"}
      [] keyboard = "library_entry" ->
            {"Common Illnesses", "Medications", "Mental Health", "Nutrition", "Exercise",
             "Sleep Health", "Main Menu", "Switch to Chat"}
      [] keyboard = "library_reply" ->
            {"More Details", "Related Topics", "Treatment Info", "Prevention Tips",
             "Main Menu", "Library New Topic"}
      [] OTHER -> {}

\* the names of the keyboards and every label that one of them offers
Keyboards == {"main_menu", "chat_entry", "chat_reply", "diagnosis_entry", "diagnosis_reply",
              "emotional_entry", "emotional_reply", "library_entry", "library_reply"}
OfferedLabels == UNION {KeyboardLabels(k) : k \in Keyboards}
\* the symptom buttons of the symptom checker, src/main.py:509-511
SymptomLabels == KeyboardLabels("diagnosis_entry") \ {"Main Menu", "Switch to Chat"}

\* the offered labels that hold one of the keywords of src/main.py:184-185
\* and reach get_intelligent_response: for them the prompt has the result of
\* a Wikipedia search as well. No specification below sends one of them.
LookupLabels == {"Common Illnesses", "Mental Health", "Pain/Discomfort",
                 "Related Symptoms", "Sleep Health", "Treatment Info"}

\* a message that is no label at all
FreeText == "hello"
\* the text messages the model sends: every class of label and a free text
\* a text by which a user tells the symptom checker that the selection is over
DoneSelecting == "done selecting"
Texts == MenuLabels \cup {"New Topic", MainMenuToken, SwitchToChat, FreeText, DoneSelecting}
             \cup OfferedLabels
\* the texts sent to a conversation in state st: one of each class of text
\* that the handler of st tells apart, and a label of another state
TextsIn(st) ==
    IF st = NoConv THEN {FreeText}
    ELSE IF st = MAIN_MENU THEN MenuLabels \cup {MainMenuToken, FreeText}
    ELSE IF st = CHAT_MODE THEN {"New Topic", MainMenuToken, SwitchToChat, FreeText}
    ELSE {MainMenuToken, SwitchToChat, FreeText}
Commands == {"/start", "/menu", "/cancel", "/info", "/report"}
Updates == Commands \cup Texts

\* what gemini_model.generate_content(...).text.strip() can be
AIResponses == {"ai_text"}
\* the call has not returned / the call raised
AIPending == "PENDING"
AIError == "ERROR"

(***************************************************************************)
(* State.                                                                  *)
(***************************************************************************)
VARIABLES
    user_profiles,        \* self.user_profiles: dict, key -> profile
    conversation_memory,  \* self.conversation_memory: dict, user -> list of turns
    total_queries,        \* self.total_queries
    disk,                 \* data/user_profiles.json, data/conversation_memory.json
    conversations,        \* ConversationHandler: user -> state, or NoConv
    queue,                \* Application.update_queue
    inflight,             \* handlers that called the AI backend and wait for it
    clock,                \* datetime.now(), as a logical clock
    last,                 \* what the most recently finished handler did
    recorded              \* history: every turn save_conversation has stored

vars == <<user_profiles, conversation_memory, total_queries, disk, conversations,
          queue, inflight, clock, last, recorded>>

EmptyDict == [k \in {} |-> 0]

\* a dictionary key as Python sees it: the int user id, or the str that
\* json.load gives back for it
IntKey(u) == <<"int", u>>
StrKey(u) == <<"str", u>>

Min(a, b) == IF a < b THEN a ELSE b

\* s[-n:]
LastN(s, n) == IF Len(s) <= n THEN s ELSE SubSeq(s, Len(s) - n + 1, Len(s))
\* s[:n]
FirstN(s, n) == IF Len(s) <= n THEN s ELSE SubSeq(s, 1, n)

\* d with d[k] = v
DictPut(d, k, v) == [x \in DOMAIN d \cup {k} |-> IF x = k THEN v ELSE d[x]]
\* d.get(k, default)
DictGet(d, k, default) == IF k \in DOMAIN d THEN d[k] ELSE default

NoLast == [user |-> 0, replies |-> <<>>, raised |-> FALSE]


(***************************************************************************)
(* Persistence: save_data and load_data.                                   *)
(***************************************************************************)
\* json.dump turns every key into a string.  A profile dictionary that was
\* loaded (str keys) and then extended by start_command (int key) is written
\* with the key of a user twice, the str entry first: json.load keeps the
\* later one, the int entry.
json_profiles(profiles) ==
    [u \in {k[2] : k \in DOMAIN profiles} |->
        IF IntKey(u) \in DOMAIN profiles THEN profiles[IntKey(u)]
        ELSE profiles[StrKey(u)]]

\* the two files after save_data()
save_data(profiles, memory) ==
    [exists |-> TRUE, profiles |-> json_profiles(profiles), memory |-> memory]

\* self.user_profiles after load_data(): json.load, keys stay strings
load_profiles(d) ==
    IF d.exists THEN [k \in {StrKey(u) : u \in DOMAIN d.profiles} |-> d.profiles[k[2]]]
    ELSE EmptyDict

\* self.conversation_memory after load_data(): {int(k): v}
load_memory(d) == IF d.exists THEN d.memory ELSE EmptyDict

(***************************************************************************)
(* conversation_memory.                                                    *)
(***************************************************************************)
Turn(user_message, ai_response, now, conv_type) ==
    [user |-> user_message, ai |-> ai_response, timestamp |-> now, type |-> conv_type]

\* mutant: the list is never cut
saved_log_uncut(log, turn) == Append(log, turn)

\* mutant: [:50] instead of [-50:], the newest turn is dropped
saved_log_keeps_oldest(log, turn) == FirstN(Append(log, turn), LogCap)

\* the list of user_id after save_conversation: append, then keep the last 50
saved_log(log, turn) ==
    LET appended == Append(log, turn)
    IN  IF Len(appended) > LogCap THEN LastN(appended, LogCap) ELSE appended

\* self.conversation_memory after save_conversation(user_id, ...)
\* mutant: one list shared by all users
save_conversation_shared(memory, user_id, turn) ==
    [k \in DOMAIN memory \cup {user_id} |-> saved_log(DictGet(memory, k, <<>>), turn)]

save_conversation(memory, user_id, turn) ==
    DictPut(memory, user_id, saved_log(DictGet(memory, user_id, <<>>), turn))

\* mutant: the files are written with every sixth turn
autosave_due_late(memory, user_id) == Len(memory[user_id]) % (SaveEvery + 1) = 0

\* "Auto-save periodically"
autosave_due(memory, user_id) == Len(memory[user_id]) % SaveEvery = 0

\* mutant: the whole list, the limit is not applied
get_conversation_history_unlimited(memory, user_id, limit) ==
    IF user_id \notin DOMAIN memory THEN <<>> ELSE memory[user_id]

get_conversation_history(memory, user_id, limit) ==
    IF user_id \notin DOMAIN memory THEN <<>> ELSE LastN(memory[user_id], limit)

(***************************************************************************)
(* Replies and the end of a handler.                                       *)
(***************************************************************************)
Reply(kind, text, keyboard) == [kind |-> kind, text |-> text, keyboard |-> keyboard]
Static(text, keyboard) == Reply("static", text, keyboard)

\* ConversationHandler: the new state of the user's conversation, from the
\* value the handler returned
update_state(old, ret) ==
    IF ret = END THEN NoConv ELSE IF ret = Unused THEN old ELSE ret

\* the handler returned ret after sending the replies rs
Finish(u, rs, ret) ==
    /\ conversations' = [conversations EXCEPT ![u] = update_state(@, ret)]
    /\ last' = [user |-> u, replies |-> rs, raised |-> FALSE]

\* the handler raised after sending the replies rs: the conversation keeps
\* its state and error_handler prints the error
Raise(u, rs) ==
    /\ conversations' = conversations
    /\ last' = [user |-> u, replies |-> rs, raised |-> TRUE]

NewProfile == [conversation_count |-> 0]

(***************************************************************************)
(* Handlers that answer without the AI backend.  Each takes the user, the  *)
(* update and the replies its caller has already sent.                     *)
(***************************************************************************)
start_command(u, upd, rs) ==
    /\ user_profiles' = IF IntKey(u) \notin DOMAIN user_profiles
                        THEN DictPut(user_profiles, IntKey(u), NewProfile)
                        ELSE user_profiles
    /\ disk' = save_data(user_profiles', conversation_memory)
    /\ Finish(u, Append(rs, Static("welcome", "main_menu")), MAIN_MENU)
    /\ UNCHANGED <<conversation_memory, total_queries, inflight, clock, recorded>>

\* entry point for a text message of a user without a conversation
handle_message(u, upd) ==
    start_command(u, upd, <<Static("hello", "keep")>>)

\* mutant: the log of the user is dropped on the way to the menu
return_to_main_menu_clears(u, upd) ==
    /\ Finish(u, <<Static("main_menu", "main_menu")>>, MAIN_MENU)
    /\ conversation_memory' =
          [k \in DOMAIN conversation_memory \ {u} |-> conversation_memory[k]]
    /\ UNCHANGED <<user_profiles, total_queries, disk, inflight, clock, recorded>>

return_to_main_menu(u, upd) ==
    /\ Finish(u, <<Static("main_menu", "main_menu")>>, MAIN_MENU)
    /\ UNCHANGED <<user_profiles, conversation_memory, total_queries, disk, inflight,
                   clock, recorded>>

\* mutant: the fallback ends the conversation
cancel_conversation_ends(u, upd) ==
    /\ Finish(u, <<Static("main_menu", "main_menu")>>, END)
    /\ UNCHANGED <<user_profiles, conversation_memory, total_queries, disk, inflight,
                   clock, recorded>>

cancel_conversation(u, upd) == return_to_main_menu(u, upd)

\* ret: MAIN_MENU from the menu, Unused for the /info command
show_bot_info(u, upd, ret) ==
    /\ Finish(u, <<Static("bot_info", "keep")>>, ret)
    /\ UNCHANGED <<user_profiles, conversation_memory, total_queries, disk, inflight,
                   clock, recorded>>

\* self.user_profiles[user_id]['conversation_count'] += 1 raises KeyError for
\* a user without an int-keyed profile
start_smart_chat(u, upd, rs) ==
    /\ IF IntKey(u) \in DOMAIN user_profiles
       THEN /\ user_profiles' =
                  [user_profiles EXCEPT ![IntKey(u)].conversation_count = @ + 1]
            /\ Finish(u,
                      Append(rs, Static(
                          IF get_conversation_history(conversation_memory, u,
                                                      WelcomeHistory) # <<>>
                          THEN "chat_welcome_remember" ELSE "chat_welcome",
                          "chat_entry")),
                      CHAT_MODE)
       ELSE /\ user_profiles' = user_profiles
            /\ Raise(u, rs)
    /\ UNCHANGED <<conversation_memory, total_queries, disk, inflight, clock, recorded>>

start_symptom_checker(u, upd) ==
    /\ Finish(u, <<Static("symptom_intro", "diagnosis_entry")>>, DIAGNOSIS_MODE)
    /\ UNCHANGED <<user_profiles, conversation_memory, total_queries, disk, inflight,
                   clock, recorded>>

start_emotional_support(u, upd) ==
    /\ Finish(u, <<Static("emotional_welcome", "emotional_entry")>>,
              EMOTIONAL_SUPPORT)
    /\ UNCHANGED <<user_profiles, conversation_memory, total_queries, disk, inflight,
                   clock, recorded>>

start_health_library(u, upd) ==
    /\ Finish(u, <<Static("library_intro", "library_entry")>>, HEALTH_LIBRARY)
    /\ UNCHANGED <<user_profiles, conversation_memory, total_queries, disk, inflight,
                   clock, recorded>>

start_medication_info(u, upd) ==
    start_smart_chat(u, upd, <<Static("medication_info", "keep")>>)

start_wellness_coach(u, upd) ==
    start_smart_chat(u, upd, <<Static("wellness_coach", "keep")>>)

(***************************************************************************)
(* Handlers that call the AI backend.  gemini_model.generate_content is a  *)
(* blocking call: the handler is in flight from the call to its return.    *)
(***************************************************************************)
\* the prompt of get_intelligent_response, by its variable parts
\* history_text: "User: ... AI: ..." for each turn, in the order of the list
render_history(history) ==
    [i \in 1..Len(history) |-> [user |-> history[i].user, ai |-> history[i].ai]]

\* mutant: the prompt carries the running query counter
chat_prompt_counts_queries(u, user_message, context) ==
    [history |-> render_history(
                     get_conversation_history(conversation_memory, u, PromptHistory)),
     conversation_count |->
         DictGet(user_profiles, IntKey(u), NewProfile).conversation_count + total_queries,
     message |-> user_message,
     context |-> context]

chat_prompt(u, user_message, context) ==
    [history |-> render_history(
                     get_conversation_history(conversation_memory, u, PromptHistory)),
     conversation_count |-> DictGet(user_profiles, IntKey(u), NewProfile).conversation_count,
     message |-> user_message,
     context |-> context]

\* get_intelligent_response up to the call of the backend; keyboard and ret
\* are what the calling handler does with the answer
get_intelligent_response(u, upd, context, keyboard, ret) ==
    /\ total_queries' = total_queries + 1
    /\ inflight' = inflight \cup
          {[user |-> u, update |-> upd, handler |-> "get_intelligent_response",
            prompt |-> chat_prompt(u, upd, context), context |-> context,
            keyboard |-> keyboard, ret |-> ret, response |-> AIPending]}
    /\ UNCHANGED <<user_profiles, conversation_memory, disk, conversations, clock, last,
                   recorded>>

\* mutant: the report is asked of the AI with one turn less
generate_health_report_early(u, upd, ret) ==
    LET history == get_conversation_history(conversation_memory, u, ReportHistory)
    IN  IF Len(history) < ReportMinTurns - 1
        THEN /\ Finish(u, <<Static("report_needs_history", "keep")>>, ret)
             /\ UNCHANGED <<user_profiles, conversation_memory, total_queries, disk,
                            inflight, clock, recorded>>
        ELSE /\ inflight' = inflight \cup
                   {[user |-> u, update |-> upd, handler |-> "generate_health_report",
                     prompt |-> [history |-> history, conversation_count |-> 0,
                                 message |-> "", context |-> "report"],
                     context |-> "report", keyboard |-> "keep", ret |-> ret,
                     response |-> AIPending]}
             /\ UNCHANGED <<user_profiles, conversation_memory, total_queries, disk,
                            conversations, clock, last, recorded>>

\* ret: MAIN_MENU from the menu, Unused for the /report command
generate_health_report(u, upd, ret) ==
    LET history == get_conversation_history(conversation_memory, u, ReportHistory)
    IN  IF Len(history) < ReportMinTurns
        THEN /\ Finish(u, <<Static("report_needs_history", "keep")>>, ret)
             /\ UNCHANGED <<user_profiles, conversation_memory, total_queries, disk,
                            inflight, clock, recorded>>
        ELSE /\ inflight' = inflight \cup
                   {[user |-> u, update |-> upd, handler |-> "generate_health_report",
                     prompt |-> [history |-> history, conversation_count |-> 0,
                                 message |-> "", context |-> "report"],
                     context |-> "report", keyboard |-> "keep", ret |-> ret,
                     response |-> AIPending]}
             /\ UNCHANGED <<user_profiles, conversation_memory, total_queries, disk,
                            conversations, clock, last, recorded>>

(***************************************************************************)
(* The handlers of the states table, src/main.py:860-876.                  *)
(***************************************************************************)
handle_main_menu(u, text) ==
    \/ text = "Smart Chat" /\ start_smart_chat(u, text, <<>>)
    \/ text = "Symptom Checker" /\ start_symptom_checker(u, text)
    \/ text = "Emotional Support" /\ start_emotional_support(u, text)
    \/ text = "Health Library" /\ start_health_library(u, text)
    \/ text = "Medication Info" /\ start_medication_info(u, text)
    \/ text = "Wellness Coach" /\ start_wellness_coach(u, text)
    \/ text = "Health Report" /\ generate_health_report(u, text, MAIN_MENU)
    \/ text = "Bot Info" /\ show_bot_info(u, text, MAIN_MENU)
    \/ /\ text \notin MenuLabels
       /\ start_smart_chat(u, text, <<Static("switch_notice", "keep")>>)

\* mutant: a quick action of the chat leads into the symptom checker
handle_chat_message_to_diagnosis(u, user_message) ==
    \/ user_message = MainMenuToken /\ return_to_main_menu(u, user_message)
    \/ /\ user_message \in ChatQuickActions
       /\ Finish(u, <<Static(user_message, "keep")>>, DIAGNOSIS_MODE)
       /\ UNCHANGED <<user_profiles, conversation_memory, total_queries, disk, inflight,
                      clock, recorded>>
    \/ /\ user_message \notin ChatQuickActions \cup {MainMenuToken}
       /\ get_intelligent_response(u, user_message, "smart_chat", "chat_reply", CHAT_MODE)

handle_chat_message(u, user_message) ==
    \/ user_message = MainMenuToken /\ return_to_main_menu(u, user_message)
    \/ /\ user_message \in ChatQuickActions
       /\ Finish(u, <<Static(user_message, "keep")>>, CHAT_MODE)
       /\ UNCHANGED <<user_profiles, conversation_memory, total_queries, disk, inflight,
                      clock, recorded>>
    \/ /\ user_message \notin ChatQuickActions \cup {MainMenuToken}
       /\ get_intelligent_response(u, user_message, "smart_chat", "chat_reply", CHAT_MODE)

handle_diagnosis_message(u, user_message) ==
    \/ user_message = MainMenuToken /\ return_to_main_menu(u, user_message)
    \/ user_message = SwitchToChat /\ start_smart_chat(u, user_message, <<>>)
    \/ /\ user_message \notin {MainMenuToken, SwitchToChat}
       /\ get_intelligent_response(u, user_message, "symptom_analysis", "diagnosis_reply",
                                   DIAGNOSIS_MODE)

handle_emotional_support(u, user_message) ==
    \/ user_message = MainMenuToken /\ return_to_main_menu(u, user_message)
    \/ user_message = SwitchToChat /\ start_smart_chat(u, user_message, <<>>)
    \/ /\ user_message \notin {MainMenuToken, SwitchToChat}
       /\ get_intelligent_response(u, user_message, "emotional_support", "emotional_reply",
                                   EMOTIONAL_SUPPORT)

handle_health_library(u, user_message) ==
    \/ user_message = MainMenuToken /\ return_to_main_menu(u, user_message)
    \/ user_message = SwitchToChat /\ start_smart_chat(u, user_message, <<>>)
    \/ /\ user_message \notin {MainMenuToken, SwitchToChat}
       /\ get_intelligent_response(u, user_message, "health_library", "library_reply",
                                   HEALTH_LIBRARY)

(***************************************************************************)
(* The AI backend and the rest of a handler in flight.                     *)
(***************************************************************************)
\* generate_content returns resp to the waiting handler
backend_answers(h, resp) ==
    /\ h \in inflight
    /\ h.response = AIPending
    /\ inflight' = (inflight \ {h}) \cup {[h EXCEPT !.response = resp]}
    /\ UNCHANGED <<user_profiles, conversation_memory, total_queries, disk, conversations,
                   clock, last, recorded>>

\* generate_content (or response.text) raises in the waiting handler
backend_raises(h) ==
    /\ h \in inflight
    /\ h.response = AIPending
    /\ inflight' = (inflight \ {h}) \cup {[h EXCEPT !.response = AIError]}
    /\ UNCHANGED <<user_profiles, conversation_memory, total_queries, disk, conversations,
                   clock, last, recorded>>

\* mutant: the answer is sent but the turn is not stored
on_ai_text_forgets(h) ==
    /\ Finish(h.user, <<Reply("ai", h.response, h.keyboard)>>, h.ret)
    /\ UNCHANGED <<user_profiles, conversation_memory, total_queries, disk, clock,
                   recorded>>

\* the try block runs to its end: save_conversation for a chat answer, then
\* the handler sends the answer and returns
on_ai_text(h) ==
    /\ IF h.handler = "get_intelligent_response"
       THEN LET turn == Turn(h.update, h.response, clock + 1, h.context)
            IN  /\ conversation_memory' =
                       save_conversation(conversation_memory, h.user, turn)
                /\ clock' = clock + 1
                /\ recorded' = [recorded EXCEPT ![h.user] = Append(@, turn)]
                /\ disk' = IF autosave_due(conversation_memory', h.user)
                           THEN save_data(user_profiles, conversation_memory')
                           ELSE disk
       ELSE UNCHANGED <<conversation_memory, clock, recorded, disk>>
    /\ Finish(h.user, <<Reply("ai", h.response, h.keyboard)>>, h.ret)
    /\ UNCHANGED <<user_profiles, total_queries>>

\* mutant: no except block, the error leaves the handler
on_ai_error_raises(h) ==
    /\ Raise(h.user, <<>>)
    /\ UNCHANGED <<user_profiles, conversation_memory, total_queries, disk, clock,
                   recorded>>

\* mutant: the turn is stored after the try statement, with the canned text
on_ai_error_stores(h) ==
    /\ IF h.handler = "get_intelligent_response"
       THEN /\ conversation_memory' =
                  save_conversation(conversation_memory, h.user,
                                    Turn(h.update, "fallback", clock + 1, h.context))
            /\ clock' = clock + 1
       ELSE UNCHANGED <<conversation_memory, clock>>
    /\ Finish(h.user, <<Reply("fallback", h.handler, h.keyboard)>>, h.ret)
    /\ UNCHANGED <<user_profiles, total_queries, disk, recorded>>

\* the except block: the canned text is returned (or sent), the handler
\* sends it and returns as after an answer
on_ai_error(h) ==
    /\ Finish(h.user, <<Reply("fallback", h.handler, h.keyboard)>>, h.ret)
    /\ UNCHANGED <<user_profiles, conversation_memory, total_queries, disk, clock,
                   recorded>>

\* the handler goes on after the blocking call
resume(h) ==
    /\ h \in inflight
    /\ h.response # AIPending
    /\ inflight' = inflight \ {h}
    /\ IF h.response = AIError THEN on_ai_error(h) ELSE on_ai_text(h)

(***************************************************************************)
(* The process stops and is started again: __init__ and load_data.  The    *)
(* ConversationHandler keeps its states in memory only, and run_polling    *)
(* drops the pending updates.                                              *)
(***************************************************************************)
Restart ==
    /\ user_profiles' = load_profiles(disk)
    /\ conversation_memory' = load_memory(disk)
    /\ total_queries' = 0
    /\ conversations' = [u \in Users |-> NoConv]
    /\ queue' = <<>>
    /\ inflight' = {}
    /\ last' = NoLast
    /\ recorded' = [u \in Users |-> DictGet(load_memory(disk), u, <<>>)]
    /\ UNCHANGED <<disk, clock>>

(***************************************************************************)
(* Routing of an update (src/main.py:854-895).                             *)
(***************************************************************************)
\* Application.builder() without concurrent_updates: an update is processed
\* only when the handler of the previous one has returned
\* mutant: concurrent_updates(True), every update gets a task of its own
CanDispatch_concurrent == TRUE

CanDispatch == inflight = {}

\* the handler registered for an update: the commands, and for a text the
\* handler that the states table names for the state of the conversation
\* (the search of the entry points under allow_reentry is not part of it)
process_update(u, upd) ==
    \/ upd = "/start" /\ start_command(u, upd, <<>>)
    \/ upd = "/menu" /\ return_to_main_menu(u, upd)
    \/ upd = "/cancel" /\ conversations[u] # NoConv /\ cancel_conversation(u, upd)
    \/ upd = "/info" /\ show_bot_info(u, upd, Unused)
    \/ upd = "/report" /\ generate_health_report(u, upd, Unused)
    \/ upd \in Texts /\ conversations[u] = NoConv /\ handle_message(u, upd)
    \/ upd \in Texts /\ conversations[u] = MAIN_MENU /\ handle_main_menu(u, upd)
    \/ upd \in Texts /\ conversations[u] = CHAT_MODE /\ handle_chat_message(u, upd)
    \/ upd \in Texts /\ conversations[u] = DIAGNOSIS_MODE /\ handle_diagnosis_message(u, upd)
    \/ upd \in Texts /\ conversations[u] = EMOTIONAL_SUPPORT /\ handle_emotional_support(u, upd)
    \/ upd \in Texts /\ conversations[u] = HEALTH_LIBRARY /\ handle_health_library(u, upd)

(***************************************************************************)
(* Specifications.                                                         *)
(***************************************************************************)
Init ==
    /\ user_profiles = EmptyDict
    /\ conversation_memory = EmptyDict
    /\ total_queries = 0
    /\ disk = [exists |-> FALSE, profiles |-> EmptyDict, memory |-> EmptyDict]
    /\ conversations = [u \in Users |-> NoConv]
    /\ queue = <<>>
    /\ inflight = {}
    /\ clock = 0
    /\ last = NoLast
    /\ recorded = [u \in Users |-> <<>>]

CountsWithin(profiles, n) ==
    \A k \in DOMAIN profiles : profiles[k].conversation_count <= n

\* an update arrives and is processed at once
Receive ==
    \E u \in SoloUsers, upd \in Updates :
        /\ CanDispatch
        /\ upd \in Commands \cup TextsIn(conversations[u])
        /\ process_update(u, upd)
        /\ UNCHANGED queue
        /\ total_queries' <= MaxQueries
        /\ CountsWithin(user_profiles', MaxCount)

BackendAnswers ==
    \E h \in inflight, resp \in AIResponses :
        /\ clock < MaxTurns \/ h.handler # "get_intelligent_response"
        /\ backend_answers(h, resp)
        /\ UNCHANGED queue

BackendRaises == \E h \in inflight : backend_raises(h) /\ UNCHANGED queue

Resume == \E h \in inflight : resume(h) /\ UNCHANGED queue

Next == Receive \/ BackendAnswers \/ BackendRaises \/ Resume

Spec == Init /\ [][Next]_vars

(***************************************************************************)
(* CapSpec: one user enters one of the four AI modes and stays in it, so   *)
(* that the log grows past its cap (scenario D of the specification).      *)
(***************************************************************************)
CapInputs(st) ==
    IF st = NoConv THEN {"/start"}
    ELSE IF st = MAIN_MENU
         THEN {"Smart Chat", "Symptom Checker", "Emotional Support", "Health Library"}
    ELSE {FreeText, "/report"}

CapReceive ==
    \E u \in SoloUsers, upd \in Updates :
        /\ CanDispatch
        /\ upd \in CapInputs(conversations[u])
        /\ process_update(u, upd)
        /\ UNCHANGED queue
        /\ total_queries' - clock' <= MaxCapFailures

CapBackendAnswers ==
    \E h \in inflight, resp \in AIResponses :
        /\ clock < MaxCapTurns \/ h.handler # "get_intelligent_response"
        /\ backend_answers(h, resp)
        /\ UNCHANGED queue

CapNext == CapReceive \/ CapBackendAnswers \/ BackendRaises \/ Resume

CapSpec == Init /\ [][CapNext]_vars

(***************************************************************************)
(* C1: in every reachable state the conversation log of every user holds   *)
(* at most LogCap (50) turns, whatever the mode of the turns.              *)
(***************************************************************************)
C1_LogWithinCap ==
    \A u \in DOMAIN conversation_memory : Len(conversation_memory[u]) <= LogCap

\* a full log from which save_conversation has dropped the oldest turn
C1_Witness ==
    \E u \in DOMAIN conversation_memory :
        /\ Len(conversation_memory[u]) = LogCap
        /\ Len(recorded[u]) = LogCap + 1

(***************************************************************************)
(* C2: after k stored turns of a user the log is exactly the most recent   *)
(* min(k, 50) of them, in the order in which they were stored.             *)
(***************************************************************************)
C2_LogIsMostRecent ==
    \A u \in Users :
        DictGet(conversation_memory, u, <<>>) =
            LastN(recorded[u], Min(Len(recorded[u]), LogCap))

\* 52 turns stored: the log starts with the third
C2_Witness ==
    \E u \in DOMAIN conversation_memory :
        /\ Len(recorded[u]) = LogCap + 2
        /\ conversation_memory[u][1] = recorded[u][3]
        /\ conversation_memory[u][LogCap] = recorded[u][LogCap + 2]

(***************************************************************************)
(* PairSpec: two users write to the bot in any interleaving.               *)
(***************************************************************************)
PairInputs(st) ==
    IF st = NoConv THEN {"/start", "/menu", FreeText}
    ELSE IF st = MAIN_MENU THEN {"Smart Chat", "Symptom Checker", FreeText}
    ELSE {FreeText, MainMenuToken, "/start"}

PairReceive ==
    \E u \in Users, upd \in Updates :
        /\ CanDispatch
        /\ upd \in PairInputs(conversations[u])
        /\ process_update(u, upd)
        /\ UNCHANGED queue
        /\ total_queries' <= MaxPairQueries
        /\ CountsWithin(user_profiles', MaxCount)

PairBackendAnswers ==
    \E h \in inflight, resp \in AIResponses :
        /\ clock < MaxPairTurns
        /\ backend_answers(h, resp)
        /\ UNCHANGED queue

PairNext == PairReceive \/ PairBackendAnswers \/ BackendRaises \/ Resume

PairSpec == Init /\ [][PairNext]_vars

(***************************************************************************)
(* QueueSpec: the updates wait in the update queue of the application and  *)
(* are taken from it one by one (src/main.py:848, 903).                    *)
(***************************************************************************)
QueueInputs == {"/start", "Smart Chat", FreeText}

\* the polling puts an update of a user into the queue
Arrive ==
    \E u \in Users, upd \in QueueInputs :
        /\ Len(queue) < MaxQueue
        /\ queue' = Append(queue, [user |-> u, update |-> upd])
        /\ UNCHANGED <<user_profiles, conversation_memory, total_queries, disk,
                       conversations, inflight, clock, last, recorded>>

\* the application takes the oldest update and runs its handler
Dispatch ==
    /\ queue # <<>>
    /\ CanDispatch
    /\ process_update(Head(queue).user, Head(queue).update)
    /\ queue' = Tail(queue)
    /\ total_queries' <= MaxPairQueries
    /\ CountsWithin(user_profiles', MaxCount)

QueueNext == Arrive \/ Dispatch \/ PairBackendAnswers \/ BackendRaises \/ Resume

QueueSpec == Init /\ [][QueueNext]_vars

\* the event loop runs what is ready: the next update and the rest of a
\* handler whose call has returned; nothing makes the backend return
FairSpec == QueueSpec /\ WF_vars(Dispatch) /\ WF_vars(Resume)

(***************************************************************************)
(* FailSpec: update.message.reply_text can raise (telegram.error: the      *)
(* network, or Markdown that cannot be parsed); the handlers do not catch  *)
(* it, so the handler ends there with what it has done so far.             *)
(***************************************************************************)
\* handle_chat_message and the like: get_intelligent_response has returned
\* the answer, having stored the turn, and reply_text raises
on_ai_text_send_fails(h) ==
    /\ h \in inflight
    /\ h.handler = "get_intelligent_response"
    /\ h.response \notin {AIPending, AIError}
    /\ inflight' = inflight \ {h}
    /\ LET turn == Turn(h.update, h.response, clock + 1, h.context)
       IN  /\ conversation_memory' = save_conversation(conversation_memory, h.user, turn)
           /\ clock' = clock + 1
           /\ recorded' = [recorded EXCEPT ![h.user] = Append(@, turn)]
           /\ disk' = IF autosave_due(conversation_memory', h.user)
                      THEN save_data(user_profiles, conversation_memory')
                      ELSE disk
    /\ Raise(h.user, <<>>)
    /\ UNCHANGED <<user_profiles, total_queries>>

\* start_smart_chat: the counter is incremented, then reply_text raises
start_smart_chat_send_fails(u, upd, rs) ==
    /\ IntKey(u) \in DOMAIN user_profiles
    /\ user_profiles' = [user_profiles EXCEPT ![IntKey(u)].conversation_count = @ + 1]
    /\ Raise(u, rs)
    /\ UNCHANGED <<conversation_memory, total_queries, disk, inflight, clock, recorded>>

SendFailsAfterAnswer == \E h \in inflight : on_ai_text_send_fails(h) /\ UNCHANGED queue

SendFailsEnteringChat ==
    \E u \in SoloUsers :
        /\ CanDispatch
        /\ conversations[u] = MAIN_MENU
        /\ start_smart_chat_send_fails(u, "Smart Chat", <<>>)
        /\ UNCHANGED queue
        /\ CountsWithin(user_profiles', MaxCount)

FailNext ==
    \/ Receive \/ BackendAnswers \/ BackendRaises \/ Resume
    \/ SendFailsAfterAnswer \/ SendFailsEnteringChat

FailSpec == Init /\ [][FailNext]_vars

(***************************************************************************)
(* PromptSpec: two users in smart chat, the first one for more turns than  *)
(* a prompt holds; each user writes a text of their own.                   *)
(***************************************************************************)
PromptInputs(u, st) ==
    IF st = NoConv THEN {"/start"}
    ELSE IF st = MAIN_MENU THEN {"Smart Chat"}
    ELSE IF u \in SoloUsers THEN {FreeText}
    ELSE {SwitchToChat}

PromptReceive ==
    \E u \in Users, upd \in Updates :
        /\ CanDispatch
        /\ upd \in PromptInputs(u, conversations[u])
        /\ process_update(u, upd)
        /\ UNCHANGED queue
        /\ total_queries' - clock' <= MaxCapFailures
        /\ u \notin SoloUsers => Len(recorded[u]) < MaxPromptOther
        /\ CountsWithin(user_profiles', MaxCount)

PromptBackendAnswers ==
    \E h \in inflight, resp \in AIResponses :
        /\ clock < MaxPromptTurns
        /\ backend_answers(h, resp)
        /\ UNCHANGED queue

PromptNext == PromptReceive \/ PromptBackendAnswers \/ BackendRaises \/ Resume

PromptSpec == Init /\ [][PromptNext]_vars

(***************************************************************************)
(* What the claims speak of.                                               *)
(***************************************************************************)
\* the stored data and the dialogue state of user u
LogOf(memory, u) == DictGet(memory, u, <<>>)
SessionUnchanged(u) ==
    /\ LogOf(conversation_memory', u) = LogOf(conversation_memory, u)
    /\ conversations'[u] = conversations[u]

\* the state in which the handler asking with this context is registered
StateOfContext(context) ==
    CASE context = "smart_chat" -> CHAT_MODE
      [] context = "symptom_analysis" -> DIAGNOSIS_MODE
      [] context = "emotional_support" -> EMOTIONAL_SUPPORT
      [] context = "health_library" -> HEALTH_LIBRARY
      [] OTHER -> MAIN_MENU

\* the state a handler in flight leaves the dialogue in when the AI answers
StateAfterAnswer(h, old) ==
    IF h.handler = "generate_health_report"
    THEN (IF h.update = "/report" THEN old ELSE MAIN_MENU)
    ELSE StateOfContext(h.context)

\* the rest of the handler in flight h runs, the call having returned or raised
Resumes(h) == h \in inflight /\ h.response # AIPending /\ h \notin inflight'
ResumesWithError(h) == Resumes(h) /\ h.response = AIError

(***************************************************************************)
(* C3: when the AI call fails, nothing is raised past the handler: the     *)
(* user is sent the canned fallback text, and the dialogue is left in the  *)
(* state that an answer of the AI leaves it in.                            *)
(***************************************************************************)
C3_FallbackOnAIError ==
    [][\A h \in inflight :
          Resumes(h) =>
              /\ conversations'[h.user] = StateAfterAnswer(h, conversations[h.user])
              /\ last'.user = h.user
              /\ ~last'.raised
              /\ Len(last'.replies) = 1
              /\ last'.replies[1].kind = (IF h.response = AIError THEN "fallback" ELSE "ai")]_vars

\* symptom analysis has answered with the canned text and is still on
C3_Witness ==
    /\ last.replies = <<Reply("fallback", "get_intelligent_response", "diagnosis_reply")>>
    /\ last.user \in Users
    /\ conversations[last.user] = DIAGNOSIS_MODE
    /\ inflight = {}

(***************************************************************************)
(* C4: a message whose AI call fails leaves the log and the dialogue state *)
(* of its user as they were before the message: neither the start of the   *)
(* handler, nor the failing call, nor the rest of the handler changes them.*)
(***************************************************************************)
C4_SessionKeptOnAIError ==
    [][\A u \in Users :
          (\/ \E h \in inflight' \ inflight : h.user = u
           \/ \E h \in inflight : h.user = u /\ ResumesWithError(h))
          => SessionUnchanged(u)]_vars

\* smart chat has answered a message with the canned text and holds a turn
C4_Witness ==
    /\ last.replies = <<Reply("fallback", "get_intelligent_response", "chat_reply")>>
    /\ last.user \in Users
    /\ conversations[last.user] = CHAT_MODE
    /\ Len(LogOf(conversation_memory, last.user)) >= 1
    /\ total_queries > Len(LogOf(conversation_memory, last.user))

(***************************************************************************)
(* C8: once a user has a conversation its stage is one of the five states  *)
(* after every step: no handler ends the conversation or leaves the stage  *)
(* undefined, whatever the input and the outcome of the AI call.           *)
(***************************************************************************)
C8_StageDefined ==
    [][\A u \in Users :
          /\ conversations'[u] \in States \cup {NoConv}
          /\ conversations[u] \in States => conversations'[u] \in States]_vars

\* a handler has raised and the stage is still a defined state
C8_Witness ==
    /\ last.raised
    /\ conversations[last.user] = MAIN_MENU

(***************************************************************************)
(* C9: in every state a message equal to a control token (Main Menu,       *)
(* Switch to Chat, New Topic) is never sent to the AI backend as a user    *)
(* message and never appended to the conversation log.                     *)
(***************************************************************************)
C9_ControlTokensFirst ==
    /\ \A h \in inflight : h.prompt.message \notin ControlTokens
    /\ \A u \in DOMAIN conversation_memory :
          \A i \in 1..Len(conversation_memory[u]) :
              conversation_memory[u][i].user \notin ControlTokens

\* handle_main_menu is given a text that is no menu label
MenuGetsOtherText(u, text) ==
    /\ text \in Texts \ MenuLabels
    /\ conversations[u] = MAIN_MENU
    /\ process_update(u, text)

(***************************************************************************)
(* C10: a message in MAIN_MENU that is no menu label is answered by one AI *)
(* request and leaves the dialogue state unchanged.                        *)
(***************************************************************************)
C10_OtherTextAnsweredByAI ==
    [][\A u \in Users, text \in Texts :
          MenuGetsOtherText(u, text) =>
              /\ conversations'[u] = MAIN_MENU
              /\ \E h \in inflight' : h.user = u /\ h.prompt.message = text]_vars

(***************************************************************************)
(* C5: the wait on the AI backend is bounded: a handler that has asked the *)
(* backend eventually sends its reply and finishes, also when the backend  *)
(* never answers.                                                          *)
(***************************************************************************)
C5_HandlerFinishes == (inflight # {}) ~> (inflight = {})

\* what a handler reads and writes of user u
UserData(u) ==
    <<LogOf(conversation_memory, u),
      DictGet(user_profiles, IntKey(u), NewProfile),
      IntKey(u) \in DOMAIN user_profiles,
      conversations[u]>>

RemoveAt(q, i) == [j \in 1..(Len(q) - 1) |-> IF j < i THEN q[j] ELSE q[j + 1]]

\* the step takes the oldest update of u from the queue
TakesOldestOf(u) ==
    \E i \in 1..Len(queue) :
        /\ queue[i].user = u
        /\ \A j \in 1..(i - 1) : queue[j].user # u
        /\ queue' = RemoveAt(queue, i)

\* the step starts the AI call of a handler of u
StartsCallOf(u) == \E h \in inflight' \ inflight : h.user = u /\ h.response = AIPending

\* the step is the rest of the handler of u that is in flight
ContinuesHandlerOf(u) ==
    \E h \in inflight : h.user = u /\ h.response # AIPending /\ inflight' = inflight \ {h}

(***************************************************************************)
(* C6: the messages of a user are handled one at a time in arrival order:  *)
(* at most one handler of the user is in flight, and a step that touches   *)
(* the user's log, profile or dialogue state is either the rest of that    *)
(* handler or the handling of the user's oldest waiting message, begun     *)
(* when no handler of the user is in flight.                               *)
(***************************************************************************)
C6_OneAtATimeInOrder ==
    [][\A u \in Users :
          /\ Cardinality({h \in inflight' : h.user = u}) <= 1
          /\ (UserData(u)' # UserData(u) \/ StartsCallOf(u))
             => \/ ContinuesHandlerOf(u)
                \/ /\ \A h \in inflight : h.user # u
                   /\ TakesOldestOf(u)]_vars

\* a handler of a user waits for the backend while the user's next message
\* is in the queue
C6_Witness ==
    \E h \in inflight : \E i \in 1..Len(queue) :
        /\ queue[i].user = h.user
        /\ Len(LogOf(conversation_memory, h.user)) >= 1

\* the step handles an update of user a, or is the rest of a handler of a
StepOf(a) ==
    \/ \E upd \in Updates : process_update(a, upd)
    \/ \E h \in inflight : h.user = a /\ resume(h)

(***************************************************************************)
(* C7: the handling of a command or message of user A leaves the log, the  *)
(* profile and the dialogue state of every other user B unchanged, in      *)
(* every interleaving of their messages.                                   *)
(***************************************************************************)
C7_OtherUserUntouched ==
    [][\A a \in Users, b \in Users :
          (a # b /\ StepOf(a)) => UserData(b)' = UserData(b)]_vars

\* both users hold a turn and a profile, and are in different states
C7_Witness ==
    /\ \A u \in Users :
          /\ Len(LogOf(conversation_memory, u)) >= 1
          /\ IntKey(u) \in DOMAIN user_profiles
    /\ conversations[1] # conversations[2]

\* a free-form message of u in CHAT_MODE is given to its handler
ChatTurnStarts(u, text) ==
    /\ conversations[u] = CHAT_MODE
    /\ text \in Texts \ (ChatQuickActions \cup {MainMenuToken})
    /\ process_update(u, text)

\* the step issues exactly one AI request, for the message text of u
OneRequestFor(u, text) ==
    /\ \E h \in inflight' :
          /\ inflight' = inflight \cup {h}
          /\ h \notin inflight
          /\ h.user = u
          /\ h.prompt.message = text
          /\ h.response = AIPending
    /\ total_queries' = total_queries + 1

\* the log after the step is the log before it with exactly one pair added
\* at its end (the oldest turn leaving a full log)
OnePairAppended(u, user_text, ai_text) ==
    LET before == LogOf(conversation_memory, u)
        after == LogOf(conversation_memory', u)
    IN  /\ after # <<>>
        /\ after[Len(after)].user = user_text
        /\ after[Len(after)].ai = ai_text
        /\ SubSeq(after, 1, Len(after) - 1) = LastN(before, LogCap - 1)

\* the rest of a chat turn: one reply of the given kind, dialogue in CHAT_MODE
ChatTurnEnds(h, kind) ==
    /\ last'.user = h.user
    /\ ~last'.raised
    /\ Len(last'.replies) = 1
    /\ last'.replies[1].kind = kind
    /\ conversations'[h.user] = CHAT_MODE

(***************************************************************************)
(* C11: each free-form message in CHAT_MODE issues exactly one AI request, *)
(* is answered by a single AI-generated reply, appends exactly one pair    *)
(* (user text, AI text) to the log of its user and leaves the dialogue in  *)
(* CHAT_MODE.                                                              *)
(***************************************************************************)
C11_ChatTurn ==
    [][/\ \A u \in Users, text \in Texts :
             ChatTurnStarts(u, text) => OneRequestFor(u, text)
       /\ \A h \in inflight :
             (Resumes(h) /\ h.context = "smart_chat") =>
                 /\ ChatTurnEnds(h, "ai")
                 /\ OnePairAppended(h.user, h.update, h.response)]_vars

(***************************************************************************)
(* C11 amended: each free-form message in CHAT_MODE issues exactly one AI  *)
(* request and leaves the dialogue in CHAT_MODE; when the request is       *)
(* answered the turn sends a single AI-generated reply and appends exactly *)
(* one pair (user text, AI text) to the log of its user; when the request  *)
(* fails it sends the fallback text and appends nothing.                   *)
(***************************************************************************)
C11_ChatTurnByOutcome ==
    [][/\ \A u \in Users, text \in Texts :
             ChatTurnStarts(u, text) =>
                 /\ OneRequestFor(u, text)
                 /\ SessionUnchanged(u)
       /\ \A h \in inflight :
             (Resumes(h) /\ h.context = "smart_chat") =>
                 IF h.response = AIError
                 THEN /\ ChatTurnEnds(h, "fallback")
                      /\ LogOf(conversation_memory', h.user) =
                            LogOf(conversation_memory, h.user)
                 ELSE /\ ChatTurnEnds(h, "ai")
                      /\ OnePairAppended(h.user, h.update, h.response)]_vars

\* a second chat turn has been answered and stored
C11_Witness ==
    /\ last.replies = <<Reply("ai", "ai_text", "chat_reply")>>
    /\ conversations[last.user] = CHAT_MODE
    /\ Len(LogOf(conversation_memory, last.user)) >= 2
    /\ LogOf(conversation_memory, last.user)[2].type = "smart_chat"

\* the labels suggested with the replies of a handler: those of the
\* keyboard sent last
SuggestedLabels(l) == KeyboardLabels(l.replies[Len(l.replies)].keyboard)

\* the handler whose replies l records has sent a keyboard with its last reply
SendsKeyboard(l) ==
    /\ l.replies # <<>>
    /\ l.replies[Len(l.replies)].keyboard # "keep"

(***************************************************************************)
(* C12: the labels suggested with a reply are a function of the new state  *)
(* of the dialogue: two replies to a user that both leave the dialogue in  *)
(* the same state carry the same set of labels, whatever handler sent them.*)
(***************************************************************************)
C12_LabelsByState ==
    [][\A u \in Users :
          (/\ last.user = u /\ SendsKeyboard(last)
           /\ last'.user = u /\ SendsKeyboard(last')
           /\ conversations'[u] = conversations[u])
          => SuggestedLabels(last') = SuggestedLabels(last)]_vars

\* the texts that the handler of state st answers by calling start_smart_chat
EntersSmartChat(st) ==
    IF st = MAIN_MENU
    THEN (Texts \ MenuLabels) \cup {"Smart Chat", "Medication Info", "Wellness Coach"}
    ELSE IF st \in {DIAGNOSIS_MODE, EMOTIONAL_SUPPORT, HEALTH_LIBRARY} THEN {SwitchToChat}
    ELSE {}

\* smart chat is entered for a user u for whom no profile is stored
SmartChatWithoutProfile(u, text) ==
    /\ IntKey(u) \notin DOMAIN user_profiles
    /\ text \in EntersSmartChat(conversations[u])
    /\ process_update(u, text)

(***************************************************************************)
(* C13: when the stored record that an action needs is missing (smart chat *)
(* is entered for a user without a stored profile), the handler does not   *)
(* fail: it sends a message to the user and the dialogue is in MAIN_MENU.  *)
(***************************************************************************)
C13_MissingProfileRecovered ==
    [][\A u \in Users, text \in Texts :
          SmartChatWithoutProfile(u, text) =>
              /\ ~last'.raised
              /\ last'.user = u
              /\ last'.replies # <<>>
              /\ conversations'[u] = MAIN_MENU]_vars

\* the stored data of user u: the conversation log and the profile
StoredData(u) ==
    <<LogOf(conversation_memory, u),
      IntKey(u) \in DOMAIN user_profiles,
      DictGet(user_profiles, IntKey(u), NewProfile)>>

(***************************************************************************)
(* C14: a handler that fails leaves the stored data of its user as they    *)
(* were before the message: no step after which a handler has raised       *)
(* changes the conversation log or the profile of a user.                  *)
(***************************************************************************)
C14_NoHalfMutation ==
    [][last'.raised => \A u \in Users : StoredData(u)' = StoredData(u)]_vars

\* user u cancels: /cancel or /menu in a conversation, or the label Main
\* Menu in one of the four modes
Cancels(u, upd) ==
    /\ \/ upd \in {"/cancel", "/menu"} /\ conversations[u] \in States
       \/ upd = MainMenuToken /\ conversations[u] \in States \ {MAIN_MENU}
    /\ process_update(u, upd)

(***************************************************************************)
(* C15: on cancellation (/cancel, or a return to the main menu) the        *)
(* session of the user is cleared: after it the store holds no             *)
(* conversation log for that user.                                         *)
(***************************************************************************)
C15_ClearedOnCancel ==
    [][\A u \in Users, upd \in Updates :
          Cancels(u, upd) => LogOf(conversation_memory', u) = <<>>]_vars

(***************************************************************************)
(* C15 amended: on cancellation (/cancel, or a return to the main menu)    *)
(* the dialogue goes to MAIN_MENU and nothing is cleared: the conversation *)
(* log of the user is kept as it was.                                      *)
(***************************************************************************)
C15_KeptOnCancel ==
    [][\A u \in Users, upd \in Updates :
          Cancels(u, upd) =>
              /\ conversations'[u] = MAIN_MENU
              /\ u \in DOMAIN conversation_memory => u \in DOMAIN conversation_memory'
              /\ LogOf(conversation_memory', u) = LogOf(conversation_memory, u)]_vars

\* the user is back in the menu and the log still holds a turn
C15_Witness ==
    /\ last.replies = <<Static("main_menu", "main_menu")>>
    /\ conversations[last.user] = MAIN_MENU
    /\ Len(LogOf(conversation_memory, last.user)) >= 1

\* what a prompt shows of a turn
Shown(turn) == [user |-> turn.user, ai |-> turn.ai]

\* the turns that the prompt for user u has to show: the last min(8, len)
\* turns of the log of u, in the order of the log
TurnsForPrompt(u) ==
    LET log == LogOf(conversation_memory, u)
        n == Min(PromptHistory, Len(log))
    IN  [i \in 1..n |-> Shown(log[Len(log) - n + i])]

(***************************************************************************)
(* C16: the prompt built for the message m of user u contains m and        *)
(* exactly the last min(8, len) turns of the log of u as stored before     *)
(* the turn, and no turn of another user.                                  *)
(***************************************************************************)
C16_PromptOfOwnLastTurns ==
    \A h \in inflight :
        h.handler = "get_intelligent_response" =>
            /\ h.prompt.message = h.update
            /\ h.prompt.history = TurnsForPrompt(h.user)
            /\ \A v \in Users \ {h.user} :
                  \A i \in 1..Len(h.prompt.history) :
                      \A j \in 1..Len(LogOf(conversation_memory, v)) :
                          h.prompt.history[i] # Shown(LogOf(conversation_memory, v)[j])

\* a prompt of the first user shows eight turns of a longer log while the
\* other user has a log too
C16_Witness ==
    \E h \in inflight :
        /\ h.handler = "get_intelligent_response"
        /\ Len(h.prompt.history) = PromptHistory
        /\ Len(LogOf(conversation_memory, h.user)) > PromptHistory
        /\ \E v \in Users \ {h.user} : Len(LogOf(conversation_memory, v)) >= 1

\* the state that the handler registered for state st returns for a text,
\* as written in its return statements
ReturnedFor(st, text) ==
    CASE st = MAIN_MENU ->
            (CASE text = "Symptom Checker" -> DIAGNOSIS_MODE
               [] text = "Emotional Support" -> EMOTIONAL_SUPPORT
               [] text = "Health Library" -> HEALTH_LIBRARY
               [] text \in {"Health Report", "Bot Info"} -> MAIN_MENU
               [] OTHER -> CHAT_MODE)
      [] st = CHAT_MODE -> (IF text = MainMenuToken THEN MAIN_MENU ELSE CHAT_MODE)
      [] OTHER ->
            (CASE text = MainMenuToken -> MAIN_MENU
               [] text = SwitchToChat -> CHAT_MODE
               [] OTHER -> st)

\* the handling of the text of u that began in state st is over in this step
TextHandled(u, st, text) ==
    \/ /\ conversations[u] = st
       /\ process_update(u, text)
       /\ inflight' = inflight
    \/ \E h \in inflight :
          /\ h.user = u /\ h.update = text /\ h.handler = "get_intelligent_response"
          /\ StateOfContext(h.context) = st
          /\ Resumes(h)

(***************************************************************************)
(* C17: the next state of the dialogue is a function of the current state  *)
(* and of the text of the message alone: whatever the counters, the stored *)
(* profile and log and the outcome of the AI call are, the dialogue is     *)
(* afterwards in the state that the handler names for that text.           *)
(***************************************************************************)
C17_NextStateByTextOnly ==
    [][\A u \in Users, st \in States, text \in Texts :
          TextHandled(u, st, text) => conversations'[u] = ReturnedFor(st, text)]_vars

(***************************************************************************)
(* The bot over several runs of the process: main() builds a new           *)
(* UltimateRagnosisAI, whose __init__ reads the files back.                *)
(***************************************************************************)
RestartInputs(st) ==
    IF st = NoConv THEN {"/start", "/menu"}
    ELSE IF st = MAIN_MENU THEN {"Smart Chat", "/start"}
    ELSE {FreeText, MainMenuToken}

RestartReceive ==
    \E u \in SoloUsers, upd \in Updates :
        /\ CanDispatch
        /\ upd \in RestartInputs(conversations[u])
        /\ process_update(u, upd)
        /\ UNCHANGED queue
        /\ total_queries' <= MaxQueries
        /\ CountsWithin(user_profiles', MaxCount)

RestartNext ==
    RestartReceive \/ BackendAnswers \/ BackendRaises \/ Resume \/ Restart

RestartSpec == Init /\ [][RestartNext]_vars

\* the process is started again when the files hold what save_data() writes
\* of the data in memory
RestartsAfterSave ==
    /\ disk = save_data(user_profiles, conversation_memory)
    /\ Restart

(***************************************************************************)
(* C18: save_data followed by load_data gives the stored data back: every  *)
(* key that had a profile has it again after the restart, with equal       *)
(* contents, and every user that had a conversation log has an equal log,  *)
(* so that a lookup by the same user id finds what was stored.             *)
(***************************************************************************)
C18_SaveLoadRoundTrip ==
    [][RestartsAfterSave =>
          /\ \A k \in DOMAIN user_profiles :
                /\ k \in DOMAIN user_profiles'
                /\ user_profiles'[k] = user_profiles[k]
          /\ \A u \in DOMAIN conversation_memory :
                /\ u \in DOMAIN conversation_memory'
                /\ conversation_memory'[u] = conversation_memory[u]]_vars

\* the prompt rendered of a snapshot: the log and the profile of a user, the
\* message and the context kind (no knowledge lookup: no text that is sent
\* holds one of the keywords)
RenderedPrompt(log, profile, message, context) ==
    LET n == Min(Len(log), PromptHistory)
    IN  [history |-> [i \in 1..n |-> Shown(log[Len(log) - n + i])],
         conversation_count |-> profile.conversation_count,
         message |-> message,
         context |-> context]

\* the step builds the prompt of the request h
BuildsPrompt(h) ==
    /\ h \notin inflight
    /\ h \in inflight'
    /\ h.handler = "get_intelligent_response"

(***************************************************************************)
(* C19: prompt construction is deterministic and free of side effects on   *)
(* stored data: the prompt of every request is the rendering of the log    *)
(* and the profile of its user, of the message and of the context kind and *)
(* of nothing else, and the step that builds it leaves the profiles, the   *)
(* logs and the files as they were.                                        *)
(***************************************************************************)
C19_PromptDeterministic ==
    [][\A h \in inflight' :
          BuildsPrompt(h) =>
              /\ h.prompt = RenderedPrompt(LogOf(conversation_memory, h.user),
                                           DictGet(user_profiles, IntKey(h.user),
                                                   NewProfile),
                                           h.update, h.context)
              /\ user_profiles' = user_profiles
              /\ conversation_memory' = conversation_memory
              /\ disk' = disk]_vars

C19_Witness ==
    \E h \in inflight :
        /\ h.handler = "get_intelligent_response"
        /\ h.response = AIPending
        /\ h.prompt.history # <<>>
        /\ h.prompt.conversation_count > 0
        /\ total_queries > 1

(***************************************************************************)
(* The symptom checker alone: a user who enters it from the menu and sends *)
(* symptoms, the closing text or the way back.                             *)
(***************************************************************************)
SymptomInputs(st) ==
    IF st = NoConv THEN {"/start"}
    ELSE IF st = MAIN_MENU THEN {"Symptom Checker"}
    ELSE IF st = DIAGNOSIS_MODE
         THEN {DoneSelecting, FreeText, MainMenuToken, "Fatigue/Sleep Issues"}
    ELSE {MainMenuToken}

SymptomReceive ==
    \E u \in SoloUsers, upd \in Updates :
        /\ CanDispatch
        /\ upd \in SymptomInputs(conversations[u])
        /\ process_update(u, upd)
        /\ UNCHANGED queue
        /\ total_queries' <= MaxQueries
        /\ CountsWithin(user_profiles', MaxCount)

SymptomNext == SymptomReceive \/ BackendAnswers \/ BackendRaises \/ Resume

SymptomSpec == Init /\ [][SymptomNext]_vars

\* u has given no symptom to the symptom checker so far
NoSymptomGiven(u) ==
    \A i \in 1..Len(recorded[u]) : recorded[u][i].type # "symptom_analysis"

\* u, in the symptom checker with nothing selected, says that the selection
\* is over
LeavesWithNoSymptom(u) ==
    /\ conversations[u] = DIAGNOSIS_MODE
    /\ NoSymptomGiven(u)
    /\ process_update(u, DoneSelecting)

(***************************************************************************)
(* C20: leaving the symptom selection with nothing selected is refused:    *)
(* the dialogue stays in the symptom state, the answer is a validation     *)
(* message of the bot itself, and no analysis is asked of the AI.          *)
(***************************************************************************)
C20_EmptySelectionRefused ==
    [][\A u \in Users :
          LeavesWithNoSymptom(u) =>
              /\ conversations'[u] = DIAGNOSIS_MODE
              /\ inflight' = inflight
              /\ last'.user = u
              /\ Len(last'.replies) = 1
              /\ last'.replies[1].kind = "static"]_vars

\* the symptom buttons that u pressed in the symptom checker and that the bot
\* took, in order
SymptomEvents(u) ==
    LET taken == SelectSeq(recorded[u],
                     LAMBDA t : t.type = "symptom_analysis" /\ t.user \in SymptomLabels)
    IN  [i \in 1..Len(taken) |-> taken[i].user]

\* the symptoms the bot holds for u: those of the symptom turns of the log
SymptomsHeld(u) ==
    LET log == LogOf(conversation_memory, u)
    IN  {log[i].user : i \in {j \in 1..Len(log) :
                                 /\ log[j].type = "symptom_analysis"
                                 /\ log[j].user \in SymptomLabels}}

Toggle(set, label) == IF label \in set THEN set \ {label} ELSE set \cup {label}

RECURSIVE ToggledInOrder(_)
ToggledInOrder(events) ==
    IF events = <<>> THEN {}
    ELSE Toggle(ToggledInOrder(SubSeq(events, 1, Len(events) - 1)), events[Len(events)])

(***************************************************************************)
(* C21: the symptoms held for a user are the result of toggling the        *)
(* pressed symptom labels in order, so that the same label pressed twice   *)
(* in a row leaves the set as it was before.                               *)
(***************************************************************************)
C21_SymptomsToggled ==
    \A u \in Users : SymptomsHeld(u) = ToggledInOrder(SymptomEvents(u))

(***************************************************************************)
(* The routing of the conversation handler as it is configured             *)
(* (src/main.py:854-887): ConversationHandler.check_update searches the    *)
(* entry points first when there is no conversation or allow_reentry is    *)
(* set, then the handlers of the state, then the fallbacks.                *)
(***************************************************************************)
NoHandler == "NO_HANDLER"
\* mutant: the entry points are searched only when there is no conversation
allow_reentry_off == FALSE
allow_reentry == TRUE

\* entry_points, src/main.py:855-859
EntryPointFor(upd) ==
    CASE upd = "/start" -> "start_command"
      [] upd = "/menu" -> "return_to_main_menu"
      [] upd \in Texts -> "handle_message"
      [] OTHER -> NoHandler

\* states, src/main.py:860-876
StateHandlerFor(st, upd) ==
    IF upd \notin Texts THEN NoHandler
    ELSE CASE st = MAIN_MENU -> "handle_main_menu"
           [] st = CHAT_MODE -> "handle_chat_message"
           [] st = DIAGNOSIS_MODE -> "handle_diagnosis_message"
           [] st = EMOTIONAL_SUPPORT -> "handle_emotional_support"
           [] st = HEALTH_LIBRARY -> "handle_health_library"
           [] OTHER -> NoHandler

\* fallbacks, src/main.py:877-883
FallbackFor(upd) ==
    CASE upd = "/start" -> "start_command"
      [] upd = "/cancel" -> "cancel_conversation"
      [] upd = "/menu" -> "return_to_main_menu"
      [] upd = MainMenuToken -> "cancel_conversation"
      [] OTHER -> NoHandler

\* the handler that the conversation handler chooses for an update of a user
\* whose conversation is in state st
check_update(st, upd) ==
    LET entry == IF st = NoConv \/ allow_reentry THEN EntryPointFor(upd) ELSE NoHandler
    IN  IF entry # NoHandler THEN entry
        ELSE IF st = NoConv THEN NoHandler
        ELSE IF StateHandlerFor(st, upd) # NoHandler THEN StateHandlerFor(st, upd)
        ELSE FallbackFor(upd)

\* the callback of the chosen handler runs
handle_update(name, u, upd) ==
    \/ name = "start_command" /\ start_command(u, upd, <<>>)
    \/ name = "return_to_main_menu" /\ return_to_main_menu(u, upd)
    \/ name = "handle_message" /\ handle_message(u, upd)
    \/ name = "cancel_conversation" /\ cancel_conversation(u, upd)
    \/ name = "handle_main_menu" /\ handle_main_menu(u, upd)
    \/ name = "handle_chat_message" /\ handle_chat_message(u, upd)
    \/ name = "handle_diagnosis_message" /\ handle_diagnosis_message(u, upd)
    \/ name = "handle_emotional_support" /\ handle_emotional_support(u, upd)
    \/ name = "handle_health_library" /\ handle_health_library(u, upd)

\* Application.process_update over the handlers of group 0: the conversation
\* handler, then the command handlers of src/main.py:893-895
dispatch_update(u, upd) ==
    LET name == check_update(conversations[u], upd)
    IN  \/ name # NoHandler /\ handle_update(name, u, upd)
        \/ name = NoHandler /\ upd = "/info" /\ show_bot_info(u, upd, Unused)
        \/ name = NoHandler /\ upd = "/report" /\ generate_health_report(u, upd, Unused)

\* the texts sent to the deployed bot: a menu label, the control tokens and a
\* free text
DeployedTexts == {"Smart Chat", "Symptom Checker", MainMenuToken, SwitchToChat, FreeText}

DeployedReceive ==
    \E u \in Users, upd \in Updates :
        /\ CanDispatch
        /\ upd \in Commands \cup DeployedTexts
        /\ dispatch_update(u, upd)
        /\ UNCHANGED queue

\* updates are taken, and the process is started again
DeployedNext == DeployedReceive \/ Restart

DeployedSpec == Init /\ [][DeployedNext]_vars

\* the conversation handler hands the text of u to a handler
TextDispatched(u, text) == text \in Texts /\ dispatch_update(u, text)

(***************************************************************************)
(* C22: a text message of a user whose conversation is in one of the five  *)
(* states is handled by the handler that the states table registers for    *)
(* that state.                                                             *)
(***************************************************************************)
C22_TextToStateHandler ==
    [][\A u \in Users, text \in Texts :
          (conversations[u] \in States /\ TextDispatched(u, text)) =>
              handle_update(StateHandlerFor(conversations[u], text), u, text)]_vars

(***************************************************************************)
(* A user who presses the buttons that the bot offers.                     *)
(***************************************************************************)
\* the labels of the keyboards that the last handler sent to u
ShownTo(u) ==
    IF last.user # u THEN {}
    ELSE UNION {KeyboardLabels(last.replies[i].keyboard) : i \in 1..Len(last.replies)}

LabelInputs(u, st) ==
    IF st = NoConv THEN {"/start"} ELSE (ShownTo(u) \ LookupLabels) \cup {FreeText}

LabelReceive ==
    \E u \in SoloUsers, upd \in Updates :
        /\ CanDispatch
        /\ upd \in LabelInputs(u, conversations[u])
        /\ process_update(u, upd)
        /\ UNCHANGED queue
        /\ total_queries' <= MaxLabelQueries
        /\ CountsWithin(user_profiles', MaxCount)

LabelBackendAnswers ==
    \E h \in inflight, resp \in AIResponses :
        /\ clock < MaxLabelTurns
        /\ backend_answers(h, resp)
        /\ UNCHANGED queue

LabelNext == LabelReceive \/ LabelBackendAnswers \/ BackendRaises \/ Resume

LabelSpec == Init /\ [][LabelNext]_vars

\* u presses a button of the keyboard that was sent last
PressesOffered(u, label) ==
    /\ conversations[u] \in States
    /\ label \in ShownTo(u)
    /\ process_update(u, label)

(***************************************************************************)
(* C23: a label that the bot has put on the keyboard is an action of the   *)
(* handler of the state the dialogue is in: pressing it never makes a      *)
(* request to the AI with the label as the user's message.                 *)
(***************************************************************************)
C23_OfferedLabelsMatched ==
    [][\A u \in Users, label \in OfferedLabels :
          PressesOffered(u, label) =>
              ~ \E h \in inflight' \ inflight : h.user = u /\ h.prompt.message = label]_vars

\* the handler of the state of u calls start_smart_chat for the text
CallsSmartChat(u, text) ==
    /\ text \in EntersSmartChat(conversations[u])
    /\ process_update(u, text)

(***************************************************************************)
(* C24: whenever start_smart_chat is called for a user, by whatever way    *)
(* the dialogue was entered, a profile is stored under the user's id, and  *)
(* the call does not fail.                                                 *)
(***************************************************************************)
C24_ProfileBeforeSmartChat ==
    [][\A u \in Users, text \in Texts :
          CallsSmartChat(u, text) =>
              /\ IntKey(u) \in DOMAIN user_profiles
              /\ ~last'.raised]_vars

\* the inputs by which a user asks for the main menu
ReturnInputs == {"/start", "/menu", "/cancel", MainMenuToken}

SubModes == {DIAGNOSIS_MODE, EMOTIONAL_SUPPORT, HEALTH_LIBRARY}
OwnLabel(st) ==
    CASE st = DIAGNOSIS_MODE -> "Symptom Checker"
      [] st = EMOTIONAL_SUPPORT -> "Emotional Support"
      [] st = HEALTH_LIBRARY -> "Health Library"
      [] OTHER -> ""

\* the step handles a text message of u
TextStep(u) == \E text \in Texts : TextHandled(u, conversations[u], text)

(***************************************************************************)
(* C26: the moves between the modes are closed. A sub-mode is entered      *)
(* only from MAIN_MENU by its own menu label; a text in a sub-mode keeps   *)
(* the state, leads to MAIN_MENU (by 'Main Menu') or to CHAT_MODE (by      *)
(* 'Switch to Chat'); a text in CHAT_MODE keeps CHAT_MODE or leads to      *)
(* MAIN_MENU.                                                              *)
(***************************************************************************)
C26_ModesClosed ==
    [][\A u \in Users :
          LET from == conversations[u]
              to == conversations'[u]
          IN  /\ (to \in SubModes /\ to # from) =>
                     from = MAIN_MENU /\ process_update(u, OwnLabel(to))
              /\ (from \in SubModes /\ TextStep(u)) =>
                     /\ to \in {from, MAIN_MENU, CHAT_MODE}
                     /\ to = MAIN_MENU => process_update(u, MainMenuToken)
                     /\ to = CHAT_MODE => process_update(u, SwitchToChat)
              /\ (from = CHAT_MODE /\ TextStep(u)) => to \in {CHAT_MODE, MAIN_MENU}]_vars

\* a user who went from the symptom checker to the chat and on, through the
\* menu, into the health library
C26_Witness ==
    \E u \in Users :
        /\ conversations[u] = HEALTH_LIBRARY
        /\ \E i, j \in 1..Len(recorded[u]) :
              /\ i < j
              /\ recorded[u][i].type = "symptom_analysis"
              /\ recorded[u][j].type = "smart_chat"

\* u asks for the health report, by the menu label or by the command
ReportRequested(u, upd) ==
    /\ \/ upd = "/report"
       \/ upd = "Health Report" /\ conversations[u] = MAIN_MENU
    /\ process_update(u, upd)

\* the step sends the report prompt of u to the AI
ReportPromptSent(u) ==
    \E h \in inflight' \ inflight :
        /\ h.user = u
        /\ h.handler = "generate_health_report"
        /\ h.response = AIPending

\* the state of the dialogue after the handler has returned MAIN_MENU: the
\* conversation handler takes the value over, the command handler of
\* src/main.py:895 has no use for it
StateAfterReport(upd, old) == IF upd = "/report" THEN old ELSE MAIN_MENU

(***************************************************************************)
(* C27: a request for the health report sends a prompt to the AI exactly   *)
(* when the user has at least three recorded turns; with too little        *)
(* history, after an answer of the AI and after a failure of the AI the    *)
(* conversation logs are as before the request, and the handler ends with  *)
(* MAIN_MENU: the dialogue is in MAIN_MENU after a request by the menu     *)
(* label (the value is not used after the /report command).                *)
(***************************************************************************)
C27_ReportOnlyWithHistory ==
    [][/\ \A u \in Users, upd \in Updates :
             ReportRequested(u, upd) =>
                 /\ ReportPromptSent(u) <=>
                        Len(LogOf(conversation_memory, u)) >= ReportMinTurns
                 /\ conversation_memory' = conversation_memory
                 /\ ~ReportPromptSent(u) =>
                        conversations'[u] = StateAfterReport(upd, conversations[u])
       /\ \A h \in inflight :
             h.handler = "generate_health_report" =>
                 /\ conversation_memory' = conversation_memory
                 /\ Resumes(h) =>
                        conversations'[h.user] =
                            StateAfterReport(h.update, conversations[h.user])]_vars

\* the report of a user with three turns has been sent, asked by the label
C27_Witness ==
    \E u \in Users :
        /\ Len(LogOf(conversation_memory, u)) >= ReportMinTurns
        /\ conversations[u] = MAIN_MENU
        /\ last.user = u
        /\ last.replies = <<Reply("ai", "ai_text", "keep")>>

\* the last PromptHistory turns of a log as the prompt shows a turn, the most
\* recent turn first
MostRecentFirst(log) ==
    LET n == Min(Len(log), PromptHistory)
    IN  [i \in 1..n |-> Shown(log[Len(log) - i + 1])]

(***************************************************************************)
(* C28: the history in the prompt of a request lists the previous turns of *)
(* the user with the most recent turn first, as the heading of that part   *)
(* of the prompt says.                                                     *)
(***************************************************************************)
C28_HistoryMostRecentFirst ==
    \A h \in inflight :
        h.handler = "get_intelligent_response" =>
            h.prompt.history = MostRecentFirst(LogOf(conversation_memory, h.user))

\* the turns of the log of u that the conversation file does not hold
Unsaved(u) ==
    LET log == LogOf(conversation_memory, u)
        file == LogOf(disk.memory, u)
    IN  {i \in 1..Len(log) : \A j \in 1..Len(file) : file[j] # log[i]}

\* the step records a turn of u
RecordsTurn(u) == Len(recorded'[u]) = Len(recorded[u]) + 1

=============================================================================
